---- MODULE Spec2Model ----
(***************************************************************************)
(* Cardinal's plugin runtime (cardinal/plugins.py): the PluginManager,     *)
(* which loads, reloads and unloads plugins through Twisted Deferred       *)
(* chains, and the EventManager, a synchronous publish/subscribe bus.      *)
(*                                                                         *)
(* A Deferred chain is modelled by its current result and the callbacks    *)
(* still to run.  A chain whose teardown hook returned a Deferred that has *)
(* not fired yet is "paused"; it resumes in a later reactor turn (Settle). *)
(* The nested functions of load and unload close over the loop variables   *)
(* `plugin` and `reload_flag` of the enclosing call, so a resumed chain    *)
(* reads whatever those variables hold when it resumes.                    *)
(***************************************************************************)
EXTENDS Integers, Sequences, FiniteSets, TLC

\* ------------------------------------------------------------------ bounds
MaxReloads == 2
MaxParams == 1
MaxCallbacks == 2
MaxBlacklist == 2

Names == {"a", "b"}
NoName == "-"

\* -------------------------------------------------------------- variables
VARIABLES
    plugins,               \* PluginManager.plugins: dict name -> entry
    reloads,               \* cardinal.reloads
    call,                  \* the load/unload call in progress or last made
    plugin,                \* loop variable `plugin` of that call (closure cell)
    reload_flag,           \* local `reload_flag` of that call (closure cell)
    deferreds,             \* local list `deferreds` of that call
    cmdret,                \* what the last blacklist/unblacklist/get_config/
                           \* call_command call did and returned
    registered_events,     \* EventManager.registered_events: dict name -> int
    registered_callbacks,  \* EventManager.registered_callbacks: dict name -> dict
    evret,                 \* what the last EventManager call did and returned
    iter                   \* fire's loop over the callback dict, while fire runs

pmvars == <<plugins, reloads, call, plugin, reload_flag, deferreds, cmdret>>
emvars == <<registered_events, registered_callbacks, evret, iter>>
vars == <<plugins, reloads, call, plugin, reload_flag, deferreds, cmdret,
          registered_events, registered_callbacks, evret, iter>>

\* ------------------------------------------------------------- dict helpers
DictSet(d, k, v) == [x \in (DOMAIN d) \cup {k} |-> IF x = k THEN v ELSE d[x]]
DictDel(d, k) == [x \in (DOMAIN d) \ {k} |-> d[x]]
EmptyDict == [x \in {} |-> 0]

\* ------------------------------------------------- Deferred results
\* The result a Deferred currently holds: a value, or a Failure wrapping an
\* exception `exc` whose args are empty (last = "") or end with `last`.
Success(kind, val) == [ok |-> TRUE, kind |-> kind, val |-> val, last |-> ""]
Failure(exc, last) == [ok |-> FALSE, kind |-> "exc", val |-> exc, last |-> last]

\* Deferred.addCallback / addErrback / addBoth applied to a chain state `s`
\* (a record whose field res is the Deferred's current result).
\* The chain state is bound as a value (v \in {s}) so that it is computed
\* once however often the callback reads it.
AddCallback(s, F(_)) == CHOOSE r \in {IF v.res.ok THEN F(v) ELSE v : v \in {s}} : TRUE
AddErrback(s, F(_)) == CHOOSE r \in {IF v.res.ok THEN v ELSE F(v) : v \in {s}} : TRUE
AddBoth(s, F(_)) == CHOOSE r \in {F(v) : v \in {s}} : TRUE

\* The errback _log_plugin_failure(message, name) builds: it re-raises the
\* exception after appending `name` to its args; e.args[-1] on an exception
\* without args raises IndexError instead.
LogPluginFailure(res, name) ==
    IF res.last = "" THEN Failure("IndexError", "msg")
    ELSE Failure(res.val, name)

\* ------------------------------------------------- plugin code (inputs)
\* the module's setup attribute: absent, or a function with `args` parameters
NoSetup == [has |-> FALSE, args |-> 0]
Setup(n) == [has |-> TRUE, args |-> n]
\* the instance's close attribute: absent, or a bound method with `args`
\* declared parameters (self included)
NoClose == [has |-> FALSE, args |-> 0]
Close(n) == [has |-> TRUE, args |-> n]

\* An attribute of the instance as dir() lists it: callable or not, with or
\* without a `regex` attribute (a pattern, here a literal text that
\* re.search looks for) and a `commands` attribute (a list of names), and,
\* for a handler, whether it raises when called.  Texts are tuples of
\* one-character strings.
Untagged == [callable |-> TRUE, hasRegex |-> FALSE, regex |-> <<>>,
             hasCommands |-> FALSE, commands |-> {}, raises |-> FALSE]
Pattern(regex) == [Untagged EXCEPT !.hasRegex = TRUE, !.regex = regex]
Named(names) == [Untagged EXCEPT !.hasCommands = TRUE, !.commands = names]
Both(regex, names) == [Pattern(regex) EXCEPT !.hasCommands = TRUE, !.commands = names]
Raising(m) == [m EXCEPT !.raises = TRUE]
Go == <<"g", "o">>
Hi == <<"h", "i">>

\* _load_plugin_config(plugin), given what the two config files hold:
\* "absent" (IOError), "invalid" (json: ValueError), "badvalue" / "badyaml"
\* (yaml.load raises ValueError / YAMLError), "falsy", "truthy" (the parsed value)
ParseJson(json) == IF json = "falsy" THEN "json_falsy"
                   ELSE IF json = "truthy" THEN "json_truthy" ELSE "False"
Truthy(v) == v \in {"json_truthy", "yaml_truthy"}
LoadPluginConfig(json, yaml) ==
    LET json_config == ParseJson(json) IN
    IF yaml = "badyaml" THEN [raised |-> TRUE, val |-> "YAMLError"]
    ELSE IF yaml \in {"falsy", "truthy"} THEN
        IF Truthy(json_config) THEN [raised |-> TRUE, val |-> "AmbiguousConfigError"]
        ELSE [raised |-> FALSE, val |-> IF yaml = "truthy" THEN "yaml_truthy" ELSE "yaml_falsy"]
    ELSE IF ~Truthy(json_config) THEN [raised |-> TRUE, val |-> "ConfigNotFoundError"]
    ELSE [raised |-> FALSE, val |-> json_config]

\* A _create_plugin_instance that passes the host and the config to every
\* setup that takes arguments
SetupCallAlwaysConfig(setup, config) ==
    IF ~setup.has THEN [raised |-> TRUE, args |-> <<>>]
    ELSE IF setup.args = 0 THEN [raised |-> FALSE, args |-> <<>>]
    ELSE IF setup.args \in {1, 2} THEN [raised |-> FALSE, args |-> <<"cardinal", config>>]
    ELSE [raised |-> TRUE, args |-> <<>>]

\* _create_plugin_instance(module, config): the arguments setup() is called
\* with, or the PluginError raised
SetupCall(setup, config) ==
    IF ~setup.has THEN [raised |-> TRUE, args |-> <<>>]
    ELSE IF setup.args = 0 THEN [raised |-> FALSE, args |-> <<>>]
    ELSE IF setup.args = 1 THEN [raised |-> FALSE, args |-> <<"cardinal">>]
    ELSE IF setup.args = 2 THEN [raised |-> FALSE, args |-> <<"cardinal", config>>]
    ELSE [raised |-> TRUE, args |-> <<>>]

\* _close_plugin_instance(plugin) up to the call of the hook: "none" (no close
\* method, returns None), "call" (the hook is called through maybeDeferred),
\* "error" (PluginError: unknown arguments)
CloseCall(close) ==
    IF ~close.has THEN "none"
    ELSE IF close.args \in {1, 2} THEN "call"
    ELSE "error"

\* ------------------------------------------------- hook and load inputs
\* How one call of a close hook ends: it returns (a value or an already
\* fired Deferred), raises, returns an already failed Deferred, or returns a
\* Deferred that has not fired yet.  `args` tells whether the exception
\* carries arguments.
HookOutcomes ==
    {[how |-> "value", args |-> TRUE], [how |-> "raise", args |-> TRUE],
     [how |-> "raise", args |-> FALSE], [how |-> "failed", args |-> TRUE]}
\* How a pending hook Deferred fires later
SettleOutcomes == {[ok |-> TRUE, args |-> TRUE], [ok |-> FALSE, args |-> TRUE]}

\* What one run of _import_module + load_plugin meets on disk and in the
\* plugin's code: does the import work, the two config files, the module's
\* setup, whether setup() raises, and the close attribute and the other
\* attributes of the instance it returns.  One input for each way the run
\* can end.
In(imp, json, yaml, setup, raises, close, methods) ==
    [imp |-> imp, json |-> json, yaml |-> yaml, setup |-> setup, raises |-> raises,
     close |-> close, methods |-> methods]
LoadInputs ==
    {In(TRUE, "absent", "absent", Setup(1), "no", NoClose, <<Named({Go})>>),
     In(TRUE, "absent", "absent", Setup(0), "no", Close(1), <<Both(Go, {Go})>>),
     In(TRUE, "truthy", "absent", Setup(2), "no", Close(2),
        <<Untagged, Raising(Named({Go}))>>),
     In(TRUE, "absent", "absent", Setup(1), "no", Close(3), <<Pattern(Hi)>>),
     In(TRUE, "falsy", "truthy", Setup(2), "no", NoClose, <<Pattern(Hi), Named({Go})>>),
     In(FALSE, "absent", "absent", Setup(1), "no", NoClose, <<>>),
     In(TRUE, "truthy", "truthy", Setup(1), "no", NoClose, <<>>),
     In(TRUE, "absent", "absent", Setup(3), "no", NoClose, <<>>),
     In(TRUE, "absent", "absent", NoSetup, "no", NoClose, <<>>),
     In(TRUE, "absent", "absent", Setup(1), "args", NoClose, <<>>)}

\* ------------------------------------------------- the load pipeline
\* Instance objects are told apart by an identity; a new object gets one that
\* no entry and no chain of the call refers to.
UsedIds(pl) ==
    {pl[n].instance.id : n \in DOMAIN pl}
    \cup UNION {{deferreds[k].closed, deferreds[k].inst, deferreds[k].replaced} :
                k \in 1..Len(deferreds)}
NewId(pl) == CHOOSE i \in 1..(Cardinality(UsedIds(pl)) + 1) :
                /\ i \notin UsedIds(pl)
                /\ \A j \in 1..(i - 1) : j \in UsedIds(pl)

\* _get_plugin_commands(instance), lines 310-335: the callable attributes
\* that carry `regex` or `commands`, in dir()'s order
IsCommand(m) == m.callable /\ (m.hasRegex \/ m.hasCommands)
GetPluginCommands(instance) == SelectSeq(instance.methods, IsCommand)

\* return_plugin_module(_), line 441: reads the entry of the closure's `plugin`
ReturnPluginModule(s, p) ==
    IF p \in DOMAIN s.plugins
    THEN [s EXCEPT !.res = Success("module", s.plugins[p].module), !.read = p]
    ELSE [s EXCEPT !.res = Failure("KeyError", p), !.read = p]

\* _import_module(module): reload() of a module object, import_module() of a name
ImportModule(s, inp) ==
    IF s.res.kind \in {"module", "str"}
    THEN [s EXCEPT !.modOf = s.res.val,
                   !.res = IF inp.imp THEN Success("module", s.res.val)
                           ELSE Failure("ImportError", "msg")]
    ELSE [s EXCEPT !.res = Success("none", "None")]

\* line 473: if reload_flag: self.cardinal.reloads += 1
CountReload(n, rf) == IF rf THEN n + 1 ELSE n

\* What _create_plugin_instance found and did: the module's setup attribute
\* and, when it called setup, the arguments it passed
NoFactory == [seen |-> FALSE, setup |-> NoSetup, called |-> FALSE, args |-> <<>>]
Factory(setup, sc) == [seen |-> TRUE, setup |-> setup, called |-> ~sc.raised, args |-> sc.args]

\* An install that keeps the blacklist of the entry it replaces
InstallKeepingBlacklist(pl, p, entry) ==
    DictSet(pl, p, IF p \in DOMAIN pl THEN [entry EXCEPT !.blacklist = pl[p].blacklist]
                   ELSE entry)

\* lines 464-471: self.plugins[plugin] = {...}
Install(pl, p, entry) == DictSet(pl, p, entry)

\* load_plugin(module), lines 451-479, with the closure's `plugin` = p and
\* `reload_flag` = rf
LoadPlugin(s, p, rf, inp) ==
    LET c == LoadPluginConfig(inp.json, inp.yaml)
        config == IF c.raised THEN "None" ELSE c.val
        files == <<inp.json, inp.yaml>>
        setup == IF s.res.kind = "module" THEN inp.setup ELSE NoSetup
        sc == SetupCall(setup, config)
        instance == [id |-> NewId(s.plugins), close |-> inp.close, setupArgs |-> sc.args,
                     methods |-> inp.methods]
        entry == [name |-> p, module |-> s.res.val, instance |-> instance,
                  commands |-> GetPluginCommands(instance), config |-> config,
                  blacklist |-> <<>>]
    IN  IF c.raised /\ c.val # "ConfigNotFoundError"
        THEN [s EXCEPT !.res = Failure(c.val, "msg"), !.cfgOf = p, !.files = files]
        ELSE IF sc.raised
        THEN [s EXCEPT !.res = Failure("PluginError", "msg"), !.cfgOf = p, !.files = files,
                       !.factory = Factory(setup, sc)]
        ELSE IF inp.raises # "no"
        THEN [s EXCEPT !.res = Failure("SetupError", IF inp.raises = "args" THEN "msg" ELSE ""),
                       !.cfgOf = p, !.files = files, !.factory = Factory(setup, sc)]
        ELSE [s EXCEPT !.res = Success("str", p),
                       !.cfgOf = p,
                       !.files = files,
                       !.factory = Factory(setup, sc),
                       !.cfg = config,
                       !.key = p,
                       !.inst = instance.id,
                       !.replaced = IF p \in DOMAIN s.plugins
                                    THEN s.plugins[p].instance.id ELSE 0,
                       !.unlisted = IF p \in DOMAIN s.plugins
                                    THEN s.plugins[p].blacklist ELSE <<>>,
                       !.plugins = Install(s.plugins, p, entry),
                       !.counted = CountReload(s.reloads, rf) - s.reloads,
                       !.reloads = CountReload(s.reloads, rf)]

\* The callbacks load() adds after the teardown step, lines 434-486, run on a
\* chain whose current result is s.res; `own` is the value `plugin` had when
\* the errbacks were built, p and rf are what the closures read when they run.
ErrbackClose(s, own) == [s EXCEPT !.res = LogPluginFailure(s.res, own)]
ErrbackLoad(s, own) == [s EXCEPT !.res = LogPluginFailure(s.res, own)]
ReloadChain(s, own, p) ==
    AddBoth(AddErrback(s, LAMBDA x : ErrbackClose(x, own)),
            LAMBDA x : ReturnPluginModule(x, p))
LoadTail(s, own, p, rf, inp) ==
    AddErrback(
        AddCallback(
            AddCallback(s, LAMBDA x : ImportModule(x, inp)),
            LAMBDA x : LoadPlugin(x, p, rf, inp)),
        LAMBDA x : ErrbackLoad(x, own))

\* The chain state a pipeline starts from
Chain(res) == [res |-> res, plugins |-> plugins, reloads |-> reloads,
               read |-> NoName, modOf |-> NoName, cfgOf |-> NoName, key |-> NoName,
               inst |-> 0, replaced |-> 0, counted |-> 0, files |-> <<>>, cfg |-> "None",
               factory |-> NoFactory, unlisted |-> <<>>]

\* An entry of the list `deferreds`: the chain of one name, with what it did:
\* own (the name it was built for), wasLoaded (the name was in the registry
\* then), closed (the instance whose hook it called, 0 if none), closeFailed,
\* read / modOf / cfgOf / key (whose entry it read, whose module it imported,
\* whose config it loaded, the key it installed), inst and replaced (the
\* instance it created and the one that entry held before), counted (what
\* it added to the reload counter), files (what config.json and config.yaml
\* held when it loaded the config, <<>> if it did not), cfg (the config of
\* the entry it installed), factory (the setup attribute
\* _create_plugin_instance found and the call it made), unlisted (the
\* blacklist of the entry it replaced)
Fired(own, wasLoaded, closed, closeFailed, s) ==
    [own |-> own, state |-> "fired", res |-> s.res, wasLoaded |-> wasLoaded,
     closed |-> closed, closeFailed |-> closeFailed,
     read |-> s.read, modOf |-> s.modOf, cfgOf |-> s.cfgOf, key |-> s.key,
     inst |-> s.inst, replaced |-> s.replaced, counted |-> s.counted,
     files |-> s.files, cfg |-> s.cfg, factory |-> s.factory, unlisted |-> s.unlisted]
Paused(own, closed) ==
    [own |-> own, state |-> "paused", res |-> Success("none", "None"), wasLoaded |-> TRUE,
     closed |-> closed, closeFailed |-> FALSE,
     read |-> NoName, modOf |-> NoName, cfgOf |-> NoName, key |-> NoName,
     inst |-> 0, replaced |-> 0, counted |-> 0, files |-> <<>>, cfg |-> "None",
     factory |-> NoFactory, unlisted |-> <<>>]

\* The result of the hook call made by _close_plugin_instance
HookResult(o) ==
    IF o.how = "value" THEN Success("none", "None")
    ELSE Failure("HookError", IF o.args THEN "msg" ELSE "")
SettleResult(o) ==
    IF o.ok THEN Success("none", "None")
    ELSE Failure("HookError", IF o.args THEN "msg" ELSE "")
\* The result of _close_plugin_instance(plugin) when it ends at once
CloseResult(close, o) ==
    IF CloseCall(close) = "none" THEN Success("none", "None")
    ELSE IF CloseCall(close) = "error" THEN Failure("PluginError", "msg")
    ELSE HookResult(o)

\* ------------------------------------------------- state after construction
\* PluginManager(cardinal) and EventManager(cardinal): empty dicts, no call made.
NoCall == [kind |-> "none", names |-> <<>>, i |-> 1, keep_entry |-> FALSE]
\* cmdret when the last PluginManager call was none of those four
NoCmd == [op |-> "none", plugin |-> NoName, channels |-> <<>>, message |-> <<>>,
          result |-> "None", exc |-> "", carried |-> <<>>, invoked |-> <<>>]
Init ==
    /\ plugins = EmptyDict
    /\ reloads = 0
    /\ call = NoCall
    /\ plugin = NoName
    /\ reload_flag = FALSE
    /\ deferreds = <<>>
    /\ cmdret = NoCmd
    /\ registered_events = EmptyDict
    /\ registered_callbacks = EmptyDict
    /\ evret = [op |-> "init", name |-> NoName, arg |-> [none |-> TRUE], exc |-> "",
                id |-> 0, result |-> FALSE,
                before |-> {}, invoked |-> <<>>, normal |-> {}, mutated |-> FALSE]
    /\ iter = [active |-> FALSE, np |-> 0, used |-> 0, pos |-> 0]

\* The name lists a caller passes, plugins = [n1, ...]: the lists of distinct
\* plugin names
Batches == {s \in UNION {[1..k -> Names] : k \in 1..Cardinality(Names)} :
                \A i, j \in 1..Len(s) : i # j => s[i] # s[j]}

Looping == call.kind # "none" /\ call.i <= Len(call.names)
Returned == call.kind # "none" /\ call.i > Len(call.names)
\* A variant of DeferredList that fires with the first Deferred that does
AnyFired == \E k \in 1..Len(deferreds) : deferreds[k].state = "fired"
\* DeferredList(deferreds, consumeErrors=True) fires when each one has
AllFired == \A k \in 1..Len(deferreds) : deferreds[k].state = "fired"
\* The DeferredList load/unload returned has fired
AggregateFired == Returned /\ AllFired
\* No call is running and no chain of the last call is still paused
Idle == call.kind = "none" \/ AggregateFired

\* ------------------------------------------------- load(plugins)
\* load(), lines 403-413: a new call with its own `plugin`, `reload_flag`
\* and `deferreds`
LoadStart(names) ==
    /\ Idle
    /\ reloads + Len(names) <= MaxReloads
    /\ call' = [kind |-> "load", names |-> names, i |-> 1, keep_entry |-> FALSE]
    /\ plugin' = NoName
    /\ reload_flag' = FALSE
    /\ deferreds' = <<>>
    /\ UNCHANGED <<plugins, reloads>>
    /\ cmdret' = NoCmd
    /\ UNCHANGED emvars

\* What one pass of the loop leaves behind
LoadIterDone(p, rf, s, d) ==
    /\ plugin' = p
    /\ reload_flag' = rf
    /\ plugins' = s.plugins
    /\ reloads' = s.reloads
    /\ deferreds' = Append(deferreds, d)
    /\ call' = [call EXCEPT !.i = call.i + 1]
    /\ cmdret' = NoCmd
    /\ UNCHANGED emvars

\* One pass of the loop, lines 415-488, for a name that is not loaded:
\* d = defer.succeed(plugin), and every callback runs as it is added.
LoadFresh ==
    /\ call.kind = "load" /\ Looping
    /\ LET p == call.names[call.i] IN
       /\ p \notin DOMAIN plugins
       /\ \E inp \in LoadInputs :
            \E s \in {LoadTail(Chain(Success("str", p)), p, p, FALSE, inp)} :
               LoadIterDone(p, FALSE, s, Fired(p, FALSE, 0, FALSE, s))

\* One pass for a loaded name whose teardown step ends at once: the hook is
\* missing, has a bad arity, or returns, raises or returns a fired Deferred.
LoadReloadNow ==
    /\ call.kind = "load" /\ Looping
    /\ LET p == call.names[call.i] IN
       /\ p \in DOMAIN plugins
       /\ LET instance == plugins[p].instance IN
          \E o \in HookOutcomes, inp \in LoadInputs :
               /\ CloseCall(instance.close) # "call" => o = [how |-> "value", args |-> TRUE]
               /\ \E r0 \in {CloseResult(instance.close, o)} :
                  \E s \in {LoadTail(ReloadChain(Chain(r0), p, p), p, p, TRUE, inp)} :
                     LoadIterDone(p, TRUE, s, Fired(p, TRUE, instance.id, ~r0.ok, s))

\* One pass for a loaded name whose hook returns a Deferred that has not
\* fired: the chain pauses with the remaining callbacks queued.
LoadReloadPending ==
    /\ call.kind = "load" /\ Looping
    /\ LET p == call.names[call.i] IN
       /\ p \in DOMAIN plugins
       /\ CloseCall(plugins[p].instance.close) = "call"
       /\ LoadIterDone(p, TRUE, Chain(Success("none", "None")),
                       Paused(p, plugins[p].instance.id))

\* The hook's Deferred of paused chain k fires in a later reactor turn, after
\* load() has returned: the queued callbacks run, reading the closure
\* variables as they are now.
LoadSettle(k) ==
    /\ call.kind = "load" /\ Returned
    /\ k \in 1..Len(deferreds)
    /\ deferreds[k].state = "paused"
    /\ LET d == deferreds[k] IN
       \E o \in SettleOutcomes, inp \in LoadInputs :
          \E r0 \in {SettleResult(o)} :
          \E s \in {LoadTail(ReloadChain(Chain(r0), d.own, plugin), d.own, plugin,
                            reload_flag, inp)} :
             /\ plugins' = s.plugins
             /\ reloads' = s.reloads
             /\ deferreds' = [deferreds EXCEPT ![k] = Fired(d.own, TRUE, d.closed, ~r0.ok, s)]
             /\ UNCHANGED <<call, plugin, reload_flag>>
             /\ cmdret' = NoCmd
             /\ UNCHANGED emvars

\* ------------------------------------------------- unload(plugins, keep_entry)
\* unload(), lines 510-518
UnloadStart(names, keep_entry) ==
    /\ Idle
    /\ call' = [kind |-> "unload", names |-> names, i |-> 1, keep_entry |-> keep_entry]
    /\ plugin' = NoName
    /\ reload_flag' = FALSE
    /\ deferreds' = <<>>
    /\ UNCHANGED <<plugins, reloads>>
    /\ cmdret' = NoCmd
    /\ UNCHANGED emvars

\* unload_all(), lines 550-559: unload of every loaded name, in the dict's order
UnloadAll ==
    \E names \in Batches \cup {<<>>} :
        /\ {names[k] : k \in 1..Len(names)} = DOMAIN plugins
        /\ UnloadStart(names, FALSE)

\* return_plugin(_), line 542: the closure's `plugin`
ReturnPlugin(s, p) == [s EXCEPT !.res = Success("str", p)]

\* The callbacks unload() adds to the teardown Deferred, lines 533-544
UnloadChain(s, own, p) ==
    AddCallback(AddErrback(s, LAMBDA x : ErrbackClose(x, own)),
                LAMBDA x : ReturnPlugin(x, p))

\* A variant of line 540 that does what the docstring says of keep_entry
RemoveEntryHonoured(d, p, keep_entry) == IF keep_entry THEN d ELSE DictDel(d, p)
\* line 540: del self.plugins[plugin], whatever keep_entry says
RemoveEntry(d, p, keep_entry) == DictDel(d, p)

UnloadIterDone(p, pl, d) ==
    /\ plugin' = p
    /\ plugins' = pl
    /\ deferreds' = Append(deferreds, d)
    /\ call' = [call EXCEPT !.i = call.i + 1]
    /\ UNCHANGED <<reloads, reload_flag>>
    /\ cmdret' = NoCmd
    /\ UNCHANGED emvars

\* A variant of line 526 that reports the missing name as unloaded
NeverLoadedSucceeds(p) == Success("str", p)
\* line 526: defer.fail(PluginError("Plugin was never loaded", plugin))
NeverLoaded(p) == Failure("PluginError", p)

\* One pass of the loop for a name that is not loaded, lines 522-527
UnloadMissing ==
    /\ call.kind = "unload" /\ Looping
    /\ LET p == call.names[call.i] IN
       /\ p \notin DOMAIN plugins
       /\ UnloadIterDone(p, plugins,
              Fired(p, FALSE, 0, FALSE, Chain(NeverLoaded(p))))

\* One pass for a loaded name whose teardown step ends at once, lines 529-546
UnloadNow ==
    /\ call.kind = "unload" /\ Looping
    /\ LET p == call.names[call.i] IN
       /\ p \in DOMAIN plugins
       /\ LET instance == plugins[p].instance IN
          \E o \in HookOutcomes :
               /\ CloseCall(instance.close) # "call" => o = [how |-> "value", args |-> TRUE]
               /\ \E r0 \in {CloseResult(instance.close, o)} :
                  \E s \in {UnloadChain(Chain(r0), p, p)} :
                     UnloadIterDone(p, RemoveEntry(plugins, p, call.keep_entry),
                                    Fired(p, TRUE, instance.id, ~r0.ok, s))

\* One pass for a loaded name whose hook returns a Deferred that has not
\* fired: the errback and return_plugin stay queued, the entry is deleted.
UnloadPending ==
    /\ call.kind = "unload" /\ Looping
    /\ LET p == call.names[call.i] IN
       /\ p \in DOMAIN plugins
       /\ CloseCall(plugins[p].instance.close) = "call"
       /\ UnloadIterDone(p, RemoveEntry(plugins, p, call.keep_entry),
                         Paused(p, plugins[p].instance.id))

\* The hook's Deferred of paused chain k fires after unload() has returned
UnloadSettle(k) ==
    /\ call.kind = "unload" /\ Returned
    /\ k \in 1..Len(deferreds)
    /\ deferreds[k].state = "paused"
    /\ LET d == deferreds[k] IN
       \E o \in SettleOutcomes :
          \E r0 \in {SettleResult(o)} :
          \E s \in {UnloadChain(Chain(r0), d.own, plugin)} :
             /\ deferreds' = [deferreds EXCEPT ![k] = Fired(d.own, TRUE, d.closed, ~r0.ok, s)]
             /\ UNCHANGED <<plugins, reloads, call, plugin, reload_flag>>
             /\ cmdret' = NoCmd
             /\ UNCHANGED emvars

\* ------------------------------------------------- the plugin manager alone
PluginNext ==
    \/ \E names \in Batches : LoadStart(names)
    \/ LoadFresh
    \/ LoadReloadNow
    \/ LoadReloadPending
    \/ \E k \in 1..Len(deferreds) : LoadSettle(k)
    \/ \E names \in Batches, keep_entry \in BOOLEAN : UnloadStart(names, keep_entry)
    \/ UnloadAll
    \/ UnloadMissing
    \/ UnloadNow
    \/ UnloadPending
    \/ \E k \in 1..Len(deferreds) : UnloadSettle(k)

LifecycleSpec == Init /\ [][PluginNext]_vars

\* The loop of load() and unload() runs to its end once the call is made,
\* and every pending hook Deferred fires at some time.
LoopStep ==
    LoadFresh \/ LoadReloadNow \/ LoadReloadPending \/ UnloadMissing \/ UnloadNow
    \/ UnloadPending
HookSettles == \E k \in 1..Len(deferreds) : LoadSettle(k) \/ UnloadSettle(k)
FairLifecycleSpec == LifecycleSpec /\ WF_vars(LoopStep) /\ WF_vars(HookSettles)


\* ================================================= EventManager
EventNames == {"e1", "e2"}
\* the values _generate_id() can return
Ids == 1..MaxCallbacks

\* What a caller passes as required_params: an int (or long), or something else
ParamInputs == {[isint |-> TRUE, n |-> k] : k \in (-1)..MaxParams}
               \cup {[isint |-> FALSE, n |-> 0]}

\* What a caller passes as callback: a non-callable, a function or bound
\* method with `args` declared parameters (self included for a method), a
\* function taking *args, or a callable that is neither a function nor a
\* method (an object with __call__, a partial, a builtin) and takes `args`
\* arguments; `function` tells whether inspect.getargspec accepts it
NotCallable == [callable |-> FALSE, method |-> FALSE, args |-> 0, varargs |-> FALSE,
                function |-> FALSE]
Function(n) == [callable |-> TRUE, method |-> FALSE, args |-> n, varargs |-> FALSE,
                function |-> TRUE]
Method(n) == [callable |-> TRUE, method |-> TRUE, args |-> n, varargs |-> FALSE,
              function |-> TRUE]
VarArgs == [callable |-> TRUE, method |-> FALSE, args |-> 0, varargs |-> TRUE,
            function |-> TRUE]
Object(n) == [callable |-> TRUE, method |-> FALSE, args |-> n, varargs |-> FALSE,
              function |-> FALSE]
Callbacks == {NotCallable, VarArgs}
             \cup {Function(n) : n \in 0..(MaxParams + 1)}
             \cup {Method(n) : n \in 1..(MaxParams + 1)}
             \cup {Object(n) : n \in 1..(MaxParams + 1)}

\* What an EventManager call did: the call and its arguments, the exception
\* it raised ("" if none), the callback id it returned or removed (0 if
\* none), and for fire: the value returned,
\* the ids subscribed when it was called, the ids invoked in order, the ids
\* whose callback returned normally, and whether a callback changed the
\* event's callback dict during the broadcast
NoArg == [none |-> TRUE]
Ret(op, name, arg, exc, id) ==
    [op |-> op, name |-> name, arg |-> arg, exc |-> exc, id |-> id, result |-> FALSE,
     before |-> {}, invoked |-> <<>>, normal |-> {}, mutated |-> FALSE]

NotFiring == [active |-> FALSE, np |-> 0, used |-> 0, pos |-> 0]

EventDone(ev, cbs, ret) ==
    /\ registered_events' = ev
    /\ registered_callbacks' = cbs
    /\ evret' = ret
    /\ iter' = NotFiring
    /\ UNCHANGED pmvars

\* the checks of register(), lines 746-752: the exception raised, "" if none
RegisterError(name, required_params) ==
    IF name \in DOMAIN registered_events THEN "EventAlreadyExistsError"
    ELSE IF ~required_params.isint THEN "TypeError"
    ELSE ""

\* A register that does not make the callback dict of the event
RegisterEventOnly(name, required_params) ==
    /\ ~iter.active
    /\ LET exc == RegisterError(name, required_params) IN
       IF exc # ""
       THEN EventDone(registered_events, registered_callbacks, Ret("register", name, required_params, exc, 0))
       ELSE EventDone(DictSet(registered_events, name, required_params.n),
                      registered_callbacks,
                      Ret("register", name, required_params, "", 0))

\* register(name, required_params), lines 732-758
Register(name, required_params) ==
    /\ ~iter.active
    /\ LET exc == RegisterError(name, required_params) IN
       IF exc # ""
       THEN EventDone(registered_events, registered_callbacks, Ret("register", name, required_params, exc, 0))
       ELSE EventDone(DictSet(registered_events, name, required_params.n),
                      IF name \notin DOMAIN registered_callbacks
                      THEN DictSet(registered_callbacks, name, EmptyDict)
                      ELSE registered_callbacks,
                      Ret("register", name, required_params, "", 0))

\* A remove that deletes the event and leaves its callbacks where they are
RemoveEventOnly(name) ==
    /\ ~iter.active
    /\ IF name \notin DOMAIN registered_events
       THEN EventDone(registered_events, registered_callbacks,
                      Ret("remove", name, NoArg, "EventDoesNotExistError", 0))
       ELSE EventDone(DictDel(registered_events, name), registered_callbacks,
                      [Ret("remove", name, NoArg, "", 0) EXCEPT
                          !.before = DOMAIN registered_callbacks[name]])

\* remove(name), lines 760-773; evret.before is the ids the event's
\* callbacks had
Remove(name) ==
    /\ ~iter.active
    /\ IF name \notin DOMAIN registered_events
       THEN EventDone(registered_events, registered_callbacks,
                      Ret("remove", name, NoArg, "EventDoesNotExistError", 0))
       ELSE EventDone(DictDel(registered_events, name), DictDel(registered_callbacks, name),
                      [Ret("remove", name, NoArg, "", 0) EXCEPT
                          !.before = DOMAIN registered_callbacks[name]])

\* inspect.getargspec(callback), line 800: TypeError for a callable that is
\* neither a function nor a method
GetArgSpecError(callback) == IF callback.function THEN "" ELSE "TypeError"

\* the arity test of register_callback, lines 800-811, for a declared event
NumFuncArgs(callback) == IF callback.method THEN callback.args - 1 ELSE callback.args
NumNeededArgs(required) == required + 1
ArityOk(callback, required) ==
    NumFuncArgs(callback) = NumNeededArgs(required) \/ callback.varargs

\* _add_callback(event_name, callback), lines 912-916: the exception raised
\* by self.registered_callbacks[event_name], "" if none
AddCallbackError(cbs, event_name) ==
    IF event_name \notin DOMAIN cbs THEN "KeyError" ELSE ""

\* the exception register_callback(event_name, callback) raises, "" if none
RegisterCallbackError(event_name, callback) ==
    IF ~callback.callable THEN "EventCallbackError"
    ELSE IF event_name \notin DOMAIN registered_events
    THEN AddCallbackError(registered_callbacks, event_name)
    ELSE IF GetArgSpecError(callback) # "" THEN GetArgSpecError(callback)
    ELSE IF ~ArityOk(callback, registered_events[event_name])
    THEN "EventCallbackError"
    ELSE AddCallbackError(registered_callbacks, event_name)

\* the callbacks registered, over all events
NumCallbacks(cbs, names) == Cardinality({<<n, id>> \in names \X Ids : id \in DOMAIN cbs[n]})

\* register_callback(event_name, callback), lines 775-819; the id is the
\* one _generate_id() comes up with that is not in use
RegisterCallback(event_name, callback) ==
    /\ ~iter.active
    /\ LET exc == RegisterCallbackError(event_name, callback) IN
       IF exc # ""
       THEN EventDone(registered_events, registered_callbacks,
                      Ret("register_callback", event_name, callback, exc, 0))
       ELSE /\ NumCallbacks(registered_callbacks, DOMAIN registered_callbacks) < MaxCallbacks
            /\ \E id \in Ids \ DOMAIN registered_callbacks[event_name] :
                 EventDone(registered_events,
                           [registered_callbacks EXCEPT
                               ![event_name] = DictSet(@, id, callback)],
                           Ret("register_callback", event_name, callback, "", id))

\* A remove_callback that empties the callback dict of the event
RemoveCallbackAll(event_name, callback_id) ==
    /\ ~iter.active
    /\ IF event_name \notin DOMAIN registered_callbacks
       THEN EventDone(registered_events, registered_callbacks,
                      Ret("remove_callback", event_name, [id |-> callback_id], "", 0))
       ELSE IF callback_id \notin DOMAIN registered_callbacks[event_name]
       THEN EventDone(registered_events, registered_callbacks,
                      Ret("remove_callback", event_name, [id |-> callback_id], "", 0))
       ELSE EventDone(registered_events,
                      [registered_callbacks EXCEPT ![event_name] = EmptyDict],
                      Ret("remove_callback", event_name, [id |-> callback_id], "", callback_id))

\* remove_callback(event_name, callback_id), lines 821-847
RemoveCallback(event_name, callback_id) ==
    /\ ~iter.active
    /\ IF event_name \notin DOMAIN registered_callbacks
       THEN EventDone(registered_events, registered_callbacks,
                      Ret("remove_callback", event_name, [id |-> callback_id], "", 0))
       ELSE IF callback_id \notin DOMAIN registered_callbacks[event_name]
       THEN EventDone(registered_events, registered_callbacks,
                      Ret("remove_callback", event_name, [id |-> callback_id], "", 0))
       ELSE EventDone(registered_events,
                      [registered_callbacks EXCEPT ![event_name] = DictDel(@, callback_id)],
                      Ret("remove_callback", event_name, [id |-> callback_id], "", callback_id))

\* ------------------------------------------------- fire
\* What a callback does when fire calls it: it returns ("accept"), raises
\* EventRejectedMessage ("reject") or another exception ("error"), or, before
\* returning, calls register_callback ("register") or remove_callback on
\* itself ("remove_self") for the event being fired.
Behaviours == {"accept", "reject", "error", "register", "remove_self"}

\* callback(self.cardinal, *params) with np params: a call that does not fit
\* the callback's parameters raises TypeError before its body runs
Invoke(callback, np, behaviour) ==
    IF callback.varargs \/ NumFuncArgs(callback) = np + 1 THEN behaviour ELSE "error"

\* iteritems() on a dict whose size changed since the iterator was made
\* raises RuntimeError at its next step
IterError(callbacks, used) ==
    IF Cardinality(DOMAIN callbacks) # used THEN "RuntimeError" ELSE ""

\* The keys the iterator has not yielded yet.  A dict yields its keys in an
\* order fixed by the keys; ids being opaque, the model takes them in
\* increasing order.
Remaining(callbacks, pos) == {id \in DOMAIN callbacks : id > pos}
NextKey(callbacks, pos) ==
    CHOOSE id \in Remaining(callbacks, pos) : \A j \in Remaining(callbacks, pos) : id <= j

\* fire(name, *params) up to the loop, lines 862-876, with np params
FireStart(name, np) ==
    /\ ~iter.active
    /\ IF name \notin DOMAIN registered_events
       THEN EventDone(registered_events, registered_callbacks,
                      Ret("fire", name, [np |-> np], "EventDoesNotExistError", 0))
       ELSE /\ evret' = [Ret("fire", name, [np |-> np], "", 0) EXCEPT
                            !.before = DOMAIN registered_callbacks[name]]
            /\ iter' = [active |-> TRUE, np |-> np,
                        used |-> Cardinality(DOMAIN registered_callbacks[name]), pos |-> 0]
            /\ UNCHANGED <<registered_events, registered_callbacks>>
            /\ UNCHANGED pmvars

\* One pass of the loop, lines 877-898: the next callback is called and does
\* `behaviour`
FireCall(behaviour, newid) ==
    /\ iter.active
    /\ LET callbacks == registered_callbacks[evret.name] IN
       /\ IterError(callbacks, iter.used) = ""
       /\ Remaining(callbacks, iter.pos) # {}
       /\ LET id == NextKey(callbacks, iter.pos)
              o == Invoke(callbacks[id], iter.np, behaviour)
              returned == o \in {"accept", "register", "remove_self"}
          IN /\ o = behaviour
             /\ IF o = "register" THEN newid \notin DOMAIN callbacks ELSE newid = 1
             /\ registered_callbacks' =
                   [registered_callbacks EXCEPT ![evret.name] =
                       IF o = "register" THEN DictSet(@, newid, callbacks[id])
                       ELSE IF o = "remove_self" THEN DictDel(@, id)
                       ELSE @]
             /\ evret' = [evret EXCEPT !.invoked = Append(@, id),
                                        !.result = @ \/ returned,
                                        !.normal = IF returned THEN @ \cup {id} ELSE @,
                                        !.mutated = @ \/ o \in {"register", "remove_self"}]
             /\ iter' = [iter EXCEPT !.pos = id]
             /\ UNCHANGED registered_events
             /\ UNCHANGED pmvars

\* The loop ends: the iterator is exhausted and fire returns `accepted`
\* (line 900), or the iterator raises and fire lets the exception through
FireEnd ==
    /\ iter.active
    /\ LET callbacks == registered_callbacks[evret.name] IN
       /\ IterError(callbacks, iter.used) # "" \/ Remaining(callbacks, iter.pos) = {}
       /\ evret' = [evret EXCEPT !.exc = IterError(callbacks, iter.used),
                                  !.result = IF IterError(callbacks, iter.used) = ""
                                             THEN @ ELSE FALSE]
       /\ iter' = NotFiring
       /\ UNCHANGED <<registered_events, registered_callbacks>>
       /\ UNCHANGED pmvars

EventNext ==
    \/ \E name \in EventNames, required_params \in ParamInputs :
          Register(name, required_params)
    \/ \E name \in EventNames : Remove(name)
    \/ \E name \in EventNames, callback \in Callbacks : RegisterCallback(name, callback)
    \/ \E name \in EventNames, id \in Ids : RemoveCallback(name, id)
    \/ \E name \in EventNames, np \in 0..MaxParams : FireStart(name, np)
    \/ \E behaviour \in Behaviours, newid \in Ids : FireCall(behaviour, newid)
    \/ FireEnd

EventSpec == Init /\ [][EventNext]_vars

\* ------------------------------------------------- blacklist and dispatch
Channels == {"#a", "#b"}
\* cardinal.nickname
Nickname == <<"n">>
\* the characters of [A-Za-z0-9_-] and of \s that the messages use
WordChars == {"g", "o", "x", "h", "i", "n", "N"}
Space == {" "}
\* The messages received: ".go", ".go hi", ".x", "N: go", "n:go", "hi"
Messages ==
    {<<".", "g", "o">>, <<".", "g", "o", " ", "h", "i">>, <<".", "x">>,
     <<"N", ":", " ", "g", "o">>, <<"n", ":", "g", "o">>, <<"h", "i">>}

\* What a caller passes as channels: a list, a string or something else;
\* val is the list the checks of lines 572-575 and 598-601 turn it into
ChannelLists == UNION {[1..k -> Channels] : k \in 1..Cardinality(Channels)}
ChannelInputs ==
    {[kind |-> "list", val |-> s] : s \in ChannelLists}
    \cup {[kind |-> "str", val |-> <<c>>] : c \in Channels}
    \cup {[kind |-> "other", val |-> <<>>]}

\* x in list
InList(x, list) == \E i \in 1..Len(list) : list[i] = x
\* list.remove(x): the list without the first x
RECURSIVE ListRemove(_, _)
ListRemove(list, x) ==
    IF list = <<>> THEN <<>>
    ELSE IF Head(list) = x THEN Tail(list)
    ELSE <<Head(list)>> \o ListRemove(Tail(list), x)

\* What a blacklist / unblacklist / get_config / call_command call did
Cmd(op, name, channels, message, result, exc, invoked) ==
    [op |-> op, plugin |-> name, channels |-> channels, message |-> message,
     result |-> result, exc |-> exc, invoked |-> invoked,
     carried |-> IF exc = "CommandNotFoundError" THEN message ELSE <<>>]
\* These calls are made between the passes of a load or unload loop, never
\* within one
NotInLoop == ~Looping
CmdDone(pl, ret) ==
    /\ plugins' = pl
    /\ cmdret' = ret
    /\ UNCHANGED <<reloads, call, plugin, reload_flag, deferreds>>
    /\ UNCHANGED emvars

\* The number of channels the blacklists of the plugins of `names` hold
RECURSIVE BlacklistSize(_, _)
BlacklistSize(pl, names) ==
    IF names = {} THEN 0
    ELSE LET name == CHOOSE n \in names : TRUE
         IN  Len(pl[name].blacklist) + BlacklistSize(pl, names \ {name})

\* line 580: self.plugins[plugin]['blacklist'].extend(channels)
Extend(list, channels) == list \o channels

\* blacklist(plugin, channels), lines 561-583
Blacklist(name, channels) ==
    /\ NotInLoop
    /\ IF channels.kind = "other"
       THEN CmdDone(plugins, Cmd("blacklist", name, <<>>, <<>>, "None", "TypeError", <<>>))
       ELSE IF name \notin DOMAIN plugins
       THEN CmdDone(plugins, Cmd("blacklist", name, channels.val, <<>>, "False", "", <<>>))
       ELSE /\ BlacklistSize(plugins, DOMAIN plugins) + Len(channels.val) <= MaxBlacklist
            /\ CmdDone([plugins EXCEPT ![name].blacklist = Extend(@, channels.val)],
                       Cmd("blacklist", name, channels.val, <<>>, "True", "", <<>>))

\* The loop of unblacklist, lines 606-613, over the channels still to do:
\* the blacklist left and the list not_blacklisted
RECURSIVE UnblacklistLoop(_, _, _)
UnblacklistLoop(channels, blacklist, not_blacklisted) ==
    IF channels = <<>> THEN [blacklist |-> blacklist, not_blacklisted |-> not_blacklisted]
    ELSE IF ~InList(Head(channels), blacklist)
    THEN UnblacklistLoop(Tail(channels), blacklist, Append(not_blacklisted, Head(channels)))
    ELSE UnblacklistLoop(Tail(channels), ListRemove(blacklist, Head(channels)),
                         not_blacklisted)

\* unblacklist(plugin, channels), lines 585-615; the list returned is put
\* in cmdret.invoked
Unblacklist(name, channels) ==
    /\ NotInLoop
    /\ IF channels.kind = "other"
       THEN CmdDone(plugins, Cmd("unblacklist", name, <<>>, <<>>, "None", "TypeError", <<>>))
       ELSE IF name \notin DOMAIN plugins
       THEN CmdDone(plugins, Cmd("unblacklist", name, channels.val, <<>>, "False", "", <<>>))
       ELSE \E r \in {UnblacklistLoop(channels.val, plugins[name].blacklist, <<>>)} :
               CmdDone([plugins EXCEPT ![name].blacklist = r.blacklist],
                       Cmd("unblacklist", name, channels.val, <<>>, "list", "",
                           r.not_blacklisted))

\* get_config(plugin), lines 617-640
GetConfig(name) ==
    /\ NotInLoop
    /\ IF name \notin DOMAIN plugins
       THEN CmdDone(plugins, Cmd("get_config", name, <<>>, <<>>, "None",
                                 "ConfigNotFoundError", <<>>))
       ELSE IF plugins[name].config = "None"
       THEN CmdDone(plugins, Cmd("get_config", name, <<>>, <<>>, "None",
                                 "ConfigNotFoundError", <<>>))
       ELSE CmdDone(plugins, Cmd("get_config", name, <<>>, <<>>, plugins[name].config,
                                 "", <<>>))

\* A regex match object, or None
NoMatch == [matched |-> FALSE, group2 |-> <<>>]
Match(group2) == [matched |-> TRUE, group2 |-> group2]
Lower(c) == IF c = "N" THEN "n" ELSE c
\* the index after the run of characters of `class` that starts at m[i]
RECURSIVE RunEnd(_, _, _)
RunEnd(m, i, class) ==
    IF i <= Len(m) /\ m[i] \in class THEN RunEnd(m, i + 1, class) ELSE i

\* re.match(self.command_regex, message), line 47:
\* r'\.(([A-Za-z0-9_-]+)\s?.*$)'
CommandRegex(m) ==
    IF Len(m) >= 2 /\ m[1] = "." /\ RunEnd(m, 2, WordChars) > 2
    THEN Match(SubSeq(m, 2, RunEnd(m, 2, WordChars) - 1))
    ELSE NoMatch

\* re.match(self.natural_command_regex % nickname, message, re.IGNORECASE),
\* line 56: r'%s:\s+(([A-Za-z0-9_-]+?)(\s(.*)|$))'
NaturalCommandRegex(m, nick) ==
    LET colon == Len(nick) + 1
        word == RunEnd(m, colon + 1, Space)
        end == RunEnd(m, word, WordChars)
    IN  IF /\ Len(m) > Len(nick)
           /\ \A i \in 1..Len(nick) : Lower(m[i]) = Lower(nick[i])
           /\ m[colon] = ":"
           /\ word > colon + 1
           /\ end > word
           /\ (end > Len(m) \/ m[end] \in Space)
        THEN Match(SubSeq(m, word, end - 1))
        ELSE NoMatch

\* lines 663-668: get_command
GetCommand(message) ==
    IF CommandRegex(message).matched THEN CommandRegex(message)
    ELSE NaturalCommandRegex(message, Nickname)

\* re.search(command.regex, message) for a literal pattern
Search(regex, m) ==
    \E i \in 0..(Len(m) - Len(regex)) : SubSeq(m, i + 1, i + Len(regex)) = regex

\* An itercommands that does not look at the blacklists
RECURSIVE IterCommandsOfAll(_, _, _)
IterCommandsOfAll(pl, order, channel) ==
    IF order = <<>> THEN <<>>
    ELSE [k \in 1..Len(pl[Head(order)].commands) |->
            [plugin |-> Head(order), idx |-> k, command |-> pl[Head(order)].commands[k]]]
         \o IterCommandsOfAll(pl, Tail(order), channel)

\* itercommands(channel), lines 337-352: the commands of the plugins not
\* blacklisted for the channel, the plugins taken in the order `order` of
\* self.plugins.items()
RECURSIVE IterCommands(_, _, _)
IterCommands(pl, order, channel) ==
    IF order = <<>> THEN <<>>
    ELSE LET name == Head(order)
             own == IF InList(channel, pl[name].blacklist) THEN <<>>
                    ELSE [k \in 1..Len(pl[name].commands) |->
                            [plugin |-> name, idx |-> k, command |-> pl[name].commands[k]]]
         IN  own \o IterCommands(pl, Tail(order), channel)

\* A sweep that tries the names of a command before its pattern
RuleNamesFirst(command, message, get_command) ==
    IF get_command.matched /\ command.hasCommands /\ get_command.group2 \in command.commands
    THEN "commands"
    ELSE IF command.hasRegex /\ Search(command.regex, message) THEN "regex"
    ELSE "none"

\* lines 675-698: the rule by which the sweep calls a command, "none" if it
\* does not call it
Rule(command, message, get_command) ==
    IF command.hasRegex /\ Search(command.regex, message) THEN "regex"
    ELSE IF ~get_command.matched THEN "none"
    ELSE IF command.hasCommands /\ get_command.group2 \in command.commands THEN "commands"
    ELSE "none"

\* A sweep that catches what a handler raises and goes on
RECURSIVE SweepIsolating(_, _, _, _)
SweepIsolating(commands, message, get_command, invoked) ==
    IF commands = <<>> THEN [invoked |-> invoked, raised |-> FALSE]
    ELSE LET c == Head(commands)
             rule == Rule(c.command, message, get_command)
             called == Append(invoked, [plugin |-> c.plugin, idx |-> c.idx, rule |-> rule])
         IN  IF rule = "none"
             THEN SweepIsolating(Tail(commands), message, get_command, invoked)
             ELSE SweepIsolating(Tail(commands), message, get_command, called)

\* The loop of call_command, lines 671-698, over the commands still to come:
\* the calls made so far and whether the last one raised
RECURSIVE Sweep(_, _, _, _)
Sweep(commands, message, get_command, invoked) ==
    IF commands = <<>> THEN [invoked |-> invoked, raised |-> FALSE]
    ELSE LET c == Head(commands)
             rule == Rule(c.command, message, get_command)
             called == Append(invoked, [plugin |-> c.plugin, idx |-> c.idx, rule |-> rule])
         IN  IF rule = "none" THEN Sweep(Tail(commands), message, get_command, invoked)
             ELSE IF c.command.raises THEN [invoked |-> called, raised |-> TRUE]
             ELSE Sweep(Tail(commands), message, get_command, called)

\* A call_command that takes every message for a command
CallCommandErrorUnparsed(get_command, sweep) ==
    IF sweep.raised THEN "HandlerError"
    ELSE IF sweep.invoked # <<>> THEN ""
    ELSE "CommandNotFoundError"

\* lines 700-711: what call_command raises, "" if it returns; cmdret.carried
\* is the message the CommandNotFoundError is made with
CallCommandError(get_command, sweep) ==
    IF sweep.raised THEN "HandlerError"
    ELSE IF ~get_command.matched \/ sweep.invoked # <<>> THEN ""
    ELSE "CommandNotFoundError"

\* The orders in which self.plugins.items() may list the loaded plugins
Orders(pl) == {s \in Batches \cup {<<>>} : {s[k] : k \in 1..Len(s)} = DOMAIN pl}

\* call_command(user, channel, message), lines 642-711
CallCommand(channel, message) ==
    /\ NotInLoop
    /\ \E order \in Orders(plugins) :
       \E sweep \in {Sweep(IterCommands(plugins, order, channel), message,
                           GetCommand(message), <<>>)} :
          CmdDone(plugins, Cmd("call_command", NoName, <<channel>>, message, "None",
                               CallCommandError(GetCommand(message), sweep),
                               sweep.invoked))

\* The plugin manager with its queries and the command router, for plugins
\* that are loaded once
DispatchNext ==
    \/ \E names \in Batches : LoadStart(names)
    \/ LoadFresh
    \/ \E name \in Names, channels \in ChannelInputs : Blacklist(name, channels)
    \/ \E name \in Names, channels \in ChannelInputs : Unblacklist(name, channels)
    \/ \E name \in Names : GetConfig(name)
    \/ \E channel \in Channels, message \in Messages : CallCommand(channel, message)

DispatchSpec == Init /\ [][DispatchNext]_vars

\* The plugin manager with blacklists of plugins that are reloaded one at
\* a time, the teardown ending at once
ReloadNext ==
    \/ \E name \in Names : LoadStart(<<name>>)
    \/ LoadFresh
    \/ LoadReloadNow
    \/ \E name \in Names, channel \in Channels :
          Blacklist(name, [kind |-> "list", val |-> <<channel>>])

ReloadSpec == Init /\ [][ReloadNext]_vars

\* ------------------------------------------------- both managers
Next == PluginNext \/ DispatchNext \/ EventNext
Spec == Init /\ [][Next]_vars


\* ================================================= properties
LoadCall == call.kind = "load"
UnloadCall == call.kind = "unload"
Chains == 1..Len(deferreds)
IsFired(k) == deferreds[k].state = "fired"
IsPaused(k) == deferreds[k].state = "paused"
Own(x, k) == x \in {NoName, deferreds[k].own}

\* C1: in one load batch every pipeline acts only on its own plugin, also
\* when a teardown hook settles after the loop: the chain built for name n
\* reads only n's entry, imports n's module, loads n's config, installs under
\* key n and reports n.
C1_PipelineActsOnOwnPlugin ==
    LoadCall =>
        \A k \in Chains :
            IsFired(k) =>
                /\ Own(deferreds[k].read, k)
                /\ Own(deferreds[k].modOf, k)
                /\ Own(deferreds[k].cfgOf, k)
                /\ Own(deferreds[k].key, k)
                /\ deferreds[k].res.ok => deferreds[k].res.val = deferreds[k].own

\* C2: the reload counter goes up by exactly one for each pipeline of a load
\* batch that successfully reloads an already loaded plugin, and by nothing
\* for a fresh load or a failed reload.
C2_ReloadCountedOnce ==
    LoadCall =>
        \A k \in Chains :
            IsFired(k) =>
                deferreds[k].counted =
                    IF deferreds[k].wasLoaded /\ deferreds[k].res.ok THEN 1 ELSE 0

\* C3: load yields one outcome per requested name, and a pipeline fails only
\* through a failing step of its own plugin (import, config, setup); a
\* pipeline reported as success has installed its own name.
OwnStepErrors == {"ImportError", "AmbiguousConfigError", "YAMLError", "PluginError",
                  "SetupError"}
C3_FailureIsolation ==
    LoadCall =>
        /\ Len(deferreds) = call.i - 1
        /\ \A k \in Chains :
              /\ deferreds[k].own = call.names[k]
              /\ IsFired(k) =>
                    IF deferreds[k].res.ok
                    THEN /\ deferreds[k].key = deferreds[k].own
                         /\ deferreds[k].own \in DOMAIN plugins
                    ELSE /\ deferreds[k].res.val \in OwnStepErrors
                         /\ deferreds[k].modOf = deferreds[k].own
                         /\ Own(deferreds[k].cfgOf, k)

\* C4: a teardown failure during unload is swallowed: the entry is removed
\* and the outcome for that plugin is success carrying its name.
C4_UnloadSwallowsTeardownFailure ==
    UnloadCall =>
        \A k \in Chains :
            (IsFired(k) /\ deferreds[k].closeFailed) =>
                /\ deferreds[k].own \notin DOMAIN plugins
                /\ deferreds[k].res.ok
                /\ deferreds[k].res.val = deferreds[k].own

\* C5: within one unload pipeline the entry stays in the registry until the
\* teardown hook has settled: never is the entry gone while the hook is pending.
C5_EntryKeptWhileTeardownPending ==
    UnloadCall =>
        \A k \in Chains :
            IsPaused(k) =>
                /\ deferreds[k].own \in DOMAIN plugins
                /\ plugins[deferreds[k].own].instance.id = deferreds[k].closed

\* C6: a reload tears down the old instance, re-imports the existing module
\* and instantiates, in that order: the instance a reload pipeline replaces
\* is the one whose teardown it has run, under its own name, and a failed
\* teardown does not keep a pipeline whose load steps succeed from replacing
\* its entry.
C6_TeardownThenReplace ==
    LoadCall =>
        \A k \in Chains :
            (IsFired(k) /\ deferreds[k].wasLoaded /\ deferreds[k].res.ok) =>
                /\ deferreds[k].key = deferreds[k].own
                /\ deferreds[k].modOf = deferreds[k].own
                /\ deferreds[k].replaced = deferreds[k].closed

\* C7: register_callback with a callable callback and a name that is not
\* declared succeeds: the callback is stored unchecked and an id is returned.
C7_CallbackForUndeclaredEvent ==
    [][(/\ evret'.op = "register_callback"
        /\ evret'.arg.callable
        /\ evret'.name \notin DOMAIN registered_events)
       => /\ evret'.exc = ""
          /\ evret'.id \in Ids
          /\ evret'.name \in DOMAIN registered_callbacks'
          /\ evret'.id \in DOMAIN registered_callbacks'[evret'.name]
          /\ registered_callbacks'[evret'.name][evret'.id] = evret'.arg]_vars

\* C8: fire on a declared event calls every callback subscribed at the time
\* of the call exactly once, whatever earlier callbacks did, lets no
\* exception through, and returns true iff a callback returned normally.
FireReturned == evret.op = "fire" /\ ~iter.active /\ evret.exc # "EventDoesNotExistError"
InvokedSet == {evret.invoked[i] : i \in 1..Len(evret.invoked)}
C8_FireCallsEveryCallbackOnce ==
    FireReturned =>
        /\ evret.exc = ""
        /\ InvokedSet = evret.before
        /\ Len(evret.invoked) = Cardinality(evret.before)
        /\ evret.result = (evret.normal # {})

\* C9: fire tolerates a callback that registers or removes a callback of the
\* event being fired: it raises nothing and still calls every callback that
\* was subscribed when the broadcast started.
C9_FireToleratesMutation ==
    (FireReturned /\ evret.mutated) =>
        /\ evret.exc = ""
        /\ evret.before \subseteq InvokedSet

\* C10: register fails and changes nothing if the name is declared or
\* required_params is not a non-negative integer; otherwise it declares the
\* event with an empty callback set.
C10_RegisterChecksParams ==
    [][evret'.op = "register" =>
         IF \/ evret'.name \in DOMAIN registered_events
            \/ ~(evret'.arg.isint /\ evret'.arg.n >= 0)
         THEN /\ evret'.exc # ""
              /\ UNCHANGED <<registered_events, registered_callbacks>>
         ELSE /\ evret'.exc = ""
              /\ registered_events' = DictSet(registered_events, evret'.name, evret'.arg.n)
              /\ registered_callbacks' =
                    DictSet(registered_callbacks, evret'.name, EmptyDict)]_vars


\* C12: unload(names, keep_entry=True) tears the named plugins down but
\* leaves their entries in the registry; with keep_entry=False the entries
\* are removed.
C12_KeepEntryKeepsEntry ==
    UnloadCall =>
        \A k \in Chains :
            deferreds[k].wasLoaded =>
                /\ deferreds[k].closed # 0
                /\ call.keep_entry = (deferreds[k].own \in DOMAIN plugins)

\* C13: a pass of the unload loop for a name that is not in the registry
\* appends a failed outcome carrying that name, calls no teardown and leaves
\* the registry as it is; a pass for a loaded name of the same batch still
\* runs the teardown of its instance and removes its entry.
RequestedName == call.names[call.i]
C13_UnloadOfMissingName ==
    [][(UnloadCall /\ Looping /\ call'.kind = "unload" /\ call'.i = call.i + 1) =>
        /\ Len(deferreds') = call.i
        /\ deferreds'[call.i].own = RequestedName
        /\ IF RequestedName \notin DOMAIN plugins
           THEN /\ plugins' = plugins
                /\ deferreds'[call.i].state = "fired"
                /\ ~deferreds'[call.i].res.ok
                /\ deferreds'[call.i].res.val = "PluginError"
                /\ deferreds'[call.i].res.last = RequestedName
                /\ deferreds'[call.i].closed = 0
           ELSE /\ plugins' = DictDel(plugins, RequestedName)
                /\ deferreds'[call.i].closed = plugins[RequestedName].instance.id]_vars
\* An unload batch has returned in which a missing name came before a loaded one
C13_Witness ==
    /\ UnloadCall /\ Returned
    /\ \E j, k \in Chains :
          /\ j < k
          /\ ~deferreds[j].wasLoaded /\ ~deferreds[j].res.ok
          /\ deferreds[k].wasLoaded /\ deferreds[k].own \notin DOMAIN plugins

\* C14: during and after unload(names) no name the loop has passed is in
\* the registry, whatever its teardown did, and the entries of the names not
\* requested stay as they were.
RequestedNames == {call.names[j] : j \in 1..Len(call.names)}
C15_AggregateAfterAllSettled ==
    /\ [](AggregateFired =>
            /\ Len(deferreds) = Len(call.names)
            /\ \A k \in Chains : deferreds[k].state = "fired")
    /\ (call.kind # "none") ~> AggregateFired
\* The loop has returned, one pipeline has failed and another is still pending
C15_Witness ==
    /\ Returned /\ ~AggregateFired
    /\ \E j, k \in Chains :
          /\ deferreds[j].state = "fired" /\ ~deferreds[j].res.ok
          /\ deferreds[k].state = "paused"


\* C20: a load that finds neither config file does not fail for want of a
\* config and installs the entry with no config; a load that finds both a
\* JSON and a YAML config always fails with AmbiguousConfigError and installs
\* nothing.
ConfigPresent == {"falsy", "truthy"}
ConfigErrors == {"ConfigNotFoundError", "AmbiguousConfigError", "YAMLError"}
C20_ConfigAbsentOrAmbiguous ==
    LoadCall =>
        \A k \in Chains :
            (IsFired(k) /\ deferreds[k].files # <<>>) =>
                /\ deferreds[k].files = <<"absent", "absent">> =>
                      /\ deferreds[k].res.val \notin ConfigErrors
                      /\ deferreds[k].res.ok => deferreds[k].cfg = "None"
                /\ (deferreds[k].files[1] \in ConfigPresent
                        /\ deferreds[k].files[2] \in ConfigPresent) =>
                      /\ ~deferreds[k].res.ok
                      /\ deferreds[k].res.val = "AmbiguousConfigError"
                      /\ deferreds[k].inst = 0
                      /\ deferreds[k].key = NoName

\* C11: after unblacklist(name, C) on a loaded plugin, whatever blacklist
\* calls came before, no channel of C is left in the plugin's blacklist
C11_UnblacklistRemovesEveryChannel ==
    (cmdret.op = "unblacklist" /\ cmdret.result = "list")
        => \A k \in 1..Len(cmdret.channels) :
              ~InList(cmdret.channels[k], plugins[cmdret.plugin].blacklist)

\* The channels of a request are all different
Distinct(channels) ==
    \A i, j \in 1..Len(channels) : i # j => channels[i] # channels[j]
\* The channels of a request that are not in a blacklist
NotPresent(channels, blacklist) ==
    SelectSeq(channels, LAMBDA c : ~InList(c, blacklist))

\* C19: blacklist returns False and changes nothing for a plugin that is
\* not loaded and True otherwise; unblacklist returns False for a plugin
\* that is not loaded, otherwise the requested channels that were not in the
\* blacklist, and removes the others; the same unblacklist call made again
\* returns every requested channel and changes nothing
C19_BlacklistResults ==
    [][\A name \in Names, channels \in ChannelInputs :
          /\ (channels.kind # "other" /\ Blacklist(name, channels))
                => IF name \notin DOMAIN plugins
                   THEN cmdret'.result = "False" /\ plugins' = plugins
                   ELSE cmdret'.result = "True"
          /\ (channels.kind # "other" /\ Distinct(channels.val)
                /\ Unblacklist(name, channels))
                => IF name \notin DOMAIN plugins
                   THEN cmdret'.result = "False" /\ plugins' = plugins
                   ELSE /\ cmdret'.result = "list"
                        /\ cmdret'.invoked = NotPresent(channels.val, plugins[name].blacklist)
                        /\ \A k \in 1..Len(channels.val) :
                              ~InList(channels.val[k], plugins'[name].blacklist)
                        /\ (/\ cmdret.op = "unblacklist"
                            /\ cmdret.result = "list"
                            /\ cmdret.plugin = name
                            /\ cmdret.channels = channels.val)
                              => /\ cmdret'.invoked = channels.val
                                 /\ plugins' = plugins]_vars

\* The last call was call_command
Dispatched == cmdret.op = "call_command"
\* The canonical parse of the dispatched message succeeded
Parsed == GetCommand(cmdret.message).matched
\* The descriptor a call of the sweep was made on
Descriptor(called) == plugins[called.plugin].commands[called.idx]

\* C16: call_command raises CommandNotFoundError, made with the message,
\* exactly when the message parsed as a command and the sweep called no
\* descriptor; for a message that did not parse it never raises it
C16_CommandNotFoundIffParsedAndNoneCalled ==
    Dispatched =>
        /\ (cmdret.exc = "CommandNotFoundError") <=> (Parsed /\ cmdret.invoked = <<>>)
        /\ cmdret.exc = "CommandNotFoundError" => cmdret.carried = cmdret.message
        /\ ~Parsed => cmdret.exc # "CommandNotFoundError"

\* CommandNotFoundError was raised with plugins loaded, and so was it not
\* for a message that did not parse and called nothing either
C16_Witness ==
    /\ Dispatched
    /\ cmdret.exc = "CommandNotFoundError"
    /\ \E name \in DOMAIN plugins : plugins[name].commands # <<>>

\* The pattern of a descriptor matches the message
PatternMatches(command, message) ==
    command.hasRegex /\ Search(command.regex, message)
\* A name of a descriptor is the command of the message
NameMatches(command, message) ==
    /\ GetCommand(message).matched
    /\ command.hasCommands
    /\ GetCommand(message).group2 \in command.commands

DispatchChannel == cmdret.channels[1]
\* A plugin is blacklisted for a channel
Blacklisted(name, channel) == InList(channel, plugins[name].blacklist)
\* The handlers, as <<plugin, index>>, that match a message among those of
\* the plugins not blacklisted for a channel
Matching(channel, message) ==
    UNION {{<<name, k>> : k \in {k \in 1..Len(plugins[name].commands) :
                                   \/ PatternMatches(plugins[name].commands[k], message)
                                   \/ NameMatches(plugins[name].commands[k], message)}} :
           name \in {n \in DOMAIN plugins : ~Blacklisted(n, channel)}}
\* The handlers the sweep called
InvokedHandlers ==
    {<<cmdret.invoked[i].plugin, cmdret.invoked[i].idx>> : i \in 1..Len(cmdret.invoked)}

ConfigPassed(files) ==
    IF LoadPluginConfig(files[1], files[2]).raised THEN "None"
    ELSE LoadPluginConfig(files[1], files[2]).val

Arity(callback) == IF callback.method THEN callback.args - 1 ELSE callback.args
\* register_callback stored nothing
StoredNothing == registered_callbacks' = registered_callbacks
\* register_callback stored the callback under the id it returned, and
\* changed nothing else
StoredOne(name, callback) ==
    /\ evret'.id \notin DOMAIN registered_callbacks[name]
    /\ registered_callbacks' =
          [registered_callbacks EXCEPT ![name] = DictSet(@, evret'.id, callback)]

\* C22: for a declared event of n required params register_callback raises
\* EventCallbackError and stores nothing for a callback of a fixed number of
\* parameters other than n + 1, stores a callback of n + 1 parameters and
\* one that takes *args; it raises EventCallbackError for every non-callable
C22_RegisterCallbackArity ==
    [][\A name \in EventNames, callback \in Callbacks :
          RegisterCallback(name, callback) =>
              IF ~callback.callable
              THEN evret'.exc = "EventCallbackError" /\ StoredNothing
              ELSE name \in DOMAIN registered_events =>
                      IF callback.varargs \/ Arity(callback) = registered_events[name] + 1
                      THEN evret'.exc = "" /\ StoredOne(name, callback)
                      ELSE evret'.exc = "EventCallbackError" /\ StoredNothing]_vars

\* The callbacks stored for an event name, none when it has no callback dict
CallbacksOf(cbs, name) == IF name \in DOMAIN cbs THEN DOMAIN cbs[name] ELSE {}
\* Nothing of the other events changes
OthersUnchanged(name) ==
    \A other \in EventNames \ {name} :
        /\ (other \in DOMAIN registered_events') = (other \in DOMAIN registered_events)
        /\ other \in DOMAIN registered_events
              => registered_events'[other] = registered_events[other]
        /\ (other \in DOMAIN registered_callbacks') = (other \in DOMAIN registered_callbacks)
        /\ other \in DOMAIN registered_callbacks
              => registered_callbacks'[other] = registered_callbacks[other]

Known(name, id) == id \in CallbacksOf(registered_callbacks, name)

\* C24: remove_callback raises nothing; for an event without callback dict
\* and for an id the event does not hold it changes nothing; for an id the
\* event holds it removes that callback and no other
C24_RemoveCallbackFrame ==
    [][\A name \in EventNames, id \in Ids :
          RemoveCallback(name, id) =>
              /\ evret'.exc = ""
              /\ registered_events' = registered_events
              /\ IF Known(name, id)
                 THEN /\ CallbacksOf(registered_callbacks', name)
                            = CallbacksOf(registered_callbacks, name) \ {id}
                      /\ \A other \in CallbacksOf(registered_callbacks', name) :
                            registered_callbacks'[name][other]
                               = registered_callbacks[name][other]
                      /\ OthersUnchanged(name)
                 ELSE registered_callbacks' = registered_callbacks]_vars

\* remove_callback removed one callback of an event and left another
C24_Witness ==
    /\ evret.op = "remove_callback"
    /\ evret.id # 0
    /\ evret.id \notin CallbacksOf(registered_callbacks, evret.name)
    /\ CallbacksOf(registered_callbacks, evret.name) # {}

C28_HandlerErrorPropagates ==
    Dispatched =>
        \A i \in 1..Len(cmdret.invoked) :
            Descriptor(cmdret.invoked[i]).raises
               => /\ cmdret.exc = "HandlerError"
                  /\ i = Len(cmdret.invoked)
                  /\ cmdret.carried = <<>>

\* A handler raised and a matching handler later in the sweep was not called
C28_Witness ==
    /\ Dispatched
    /\ cmdret.exc = "HandlerError"
    /\ Matching(DispatchChannel, cmdret.message) \ InvokedHandlers # {}

\* This step installed an entry under a name: the name is new in the
\* registry or holds another instance than before
Installed(name) ==
    /\ name \in DOMAIN plugins'
    /\ name \in DOMAIN plugins => plugins'[name].instance.id # plugins[name].instance.id

\* C26: an entry is installed with an empty blacklist, by a load and by a
\* reload, whatever was blacklisted before: itercommands yields all its
\* commands for every channel
C26_InstallClearsBlacklist ==
    [][\A name \in Names :
          Installed(name) =>
              /\ plugins'[name].blacklist = <<>>
              /\ \A channel \in Channels :
                    Len(IterCommands(plugins', <<name>>, channel))
                       = Len(plugins'[name].commands)]_vars

\* A plugin with a channel blacklisted was reloaded and has none blacklisted
C26_Witness ==
    /\ LoadCall
    /\ \E k \in Chains :
          /\ IsFired(k)
          /\ deferreds[k].res.ok
          /\ deferreds[k].wasLoaded
          /\ deferreds[k].unlisted # <<>>
          /\ plugins[deferreds[k].key].blacklist = <<>>
          /\ plugins[deferreds[k].key].commands # <<>>

\* C25: a reload that fails leaves the plugin registered with the entry it
\* had: the instance whose teardown the reload ran is still the one in the
\* registry
C25_FailedReloadKeepsEntry ==
    LoadCall =>
        \A k \in Chains :
            (IsFired(k) /\ deferreds[k].wasLoaded /\ ~deferreds[k].res.ok) =>
                /\ deferreds[k].own \in DOMAIN plugins
                /\ plugins[deferreds[k].own].instance.id = deferreds[k].closed

====
